---- MODULE Spec2Model ----
(***************************************************************************)
(* A model of picoleaf's Nanoleaf client (client.go) and of the pure       *)
(* functions it is built from: the RGB -> HSL conversion, the JSON         *)
(* encoding of State, and the external-control UDP frame encoding.         *)
(*                                                                         *)
(* One process runs one command.  A client operation is one action: it     *)
(* takes the process from "idle" to "done" and leaves behind the list of   *)
(* network operations it performed (events) and what it returned (ret).    *)
(* The network's answers (refused connection, failed read, HTTP status,    *)
(* DNS answer, socket errors) are inputs of the action.                    *)
(*                                                                         *)
(* The command line (main.go) is a second specification: one action per    *)
(* command reads the arguments, and either exits with status 1 or calls    *)
(* the client and exits with what the call gave.                           *)
(***************************************************************************)
EXTENDS Integers, Sequences, FiniteSets, TLC

VARIABLES
    host,     \* Client.Host, as configured for this process
    argv,     \* flag.Args() of a run from the command line (else <<>>)
    pc,       \* "idle" | "done" | "input" (a pure function's input is drawn)
              \* | "exit0" | "exit1" (a run from the command line has exited)
              \* | "panic" (it was ended by a nil pointer dereference)
    op,       \* the operation that ran (or whose input is drawn)
    args,     \* its arguments
    net,      \* what the network answered in this run (an input)
    events,   \* the network operations it performed, in order
    ret       \* what it returned

vars == <<host, argv, pc, op, args, net, events, ret>>

----------------------------------------------------------------------------
(* Bounds of the model *)

\* channel values 0..MaxChan and 255-MaxChan..255 are drawn (plus TieChannels)
MaxChan == 3
\* frame lists of every length 0..MaxFrames are drawn (plus the two long ones)
MaxFrames == 2
\* the largest value strconv parses (1<<63 - 1 in the build), narrowed to
\* the integers at hand; the words drawn denote values below it or above 1<<63
MaxInt == 999999999

(* Program constants *)

ExternalControlPort == 60222
MaxUint16 == 65535
headerSize == 2
panelFrameSize == 8

----------------------------------------------------------------------------
(* Go values *)

\* a nil pointer and a pointer to x
NilPtr == <<>>
Ptr(x) == <<x>>
IsNil(p) == p = <<>>
Deref(p) == p[1]

\* the nil error
NoError == "nil"

Min2(a, b) == IF a <= b THEN a ELSE b
Max2(a, b) == IF a >= b THEN a ELSE b

----------------------------------------------------------------------------
(* encoding/json, for the types client.go marshals.  A JSON object is the  *)
(* sequence of its members <<key, value>> in the order json.Marshal emits  *)
(* them (the struct's field order).  A request body is kept as the JSON    *)
(* value its text denotes.                                                 *)

JNum(n) == [t |-> "num", n |-> n]
JBool(b) == [t |-> "bool", b |-> b]
JStr(s) == [t |-> "str", s |-> s]
JObj(members) == [t |-> "obj", members |-> members]
\* no body (a GET)
NoBody == [t |-> "none"]

\* a field tagged `json:"key"`: always emitted
Field(key, value) == << <<key, value>> >>
\* (mutant) omitempty ignored: the field is emitted even when empty
FieldOmitEmptyIgnored(key, empty, value) == << <<key, value>> >>

\* a field tagged `json:"key,omitempty"`: left out when empty (nil pointer,
\* 0, "")
FieldOmitEmpty(key, empty, value) == IF empty THEN <<>> ELSE << <<key, value>> >>

\* Min/Max *int `json:"min,omitempty"`
IntPtrField(key, p) == FieldOmitEmpty(key, IsNil(p), JNum(IF IsNil(p) THEN 0 ELSE Deref(p)))

MarshalOnProperty(p) == JObj(Field("value", JBool(p.Value)))

MarshalBrightnessProperty(p) ==
    JObj(IntPtrField("min", p.Min) \o IntPtrField("max", p.Max)
         \o Field("value", JNum(p.Value))
         \o FieldOmitEmpty("duration", p.Duration = 0, JNum(p.Duration)))

\* ColorTemperatureProperty, HueProperty and SaturationProperty have the same
\* three fields
MarshalRangeProperty(p) ==
    JObj(IntPtrField("min", p.Min) \o IntPtrField("max", p.Max)
         \o Field("value", JNum(p.Value)))

PtrFieldOn(key, p) ==
    FieldOmitEmpty(key, IsNil(p), IF IsNil(p) THEN JNum(0) ELSE MarshalOnProperty(Deref(p)))
PtrFieldBrightness(key, p) ==
    FieldOmitEmpty(key, IsNil(p), IF IsNil(p) THEN JNum(0) ELSE MarshalBrightnessProperty(Deref(p)))
PtrFieldRange(key, p) ==
    FieldOmitEmpty(key, IsNil(p), IF IsNil(p) THEN JNum(0) ELSE MarshalRangeProperty(Deref(p)))

\* json.Marshal(State{...})
MarshalState(s) ==
    JObj(PtrFieldOn("on", s.On)
         \o PtrFieldBrightness("brightness", s.Brightness)
         \o PtrFieldRange("ct", s.ColorTemperature)
         \o PtrFieldRange("hue", s.Hue)
         \o PtrFieldRange("sat", s.Saturation)
         \o FieldOmitEmpty("colorMode", s.ColorMode = "", JStr(s.ColorMode)))

\* json.Marshal(effectsSelectRequest{Select: name})
MarshalEffectsSelectRequest(name) == JObj(Field("select", JStr(name)))

\* the keys of a JSON object
Keys(j) == {j.members[i][1] : i \in 1..Len(j.members)}
\* the value of key k (k \in Keys(j))
Member(j, k) == j.members[CHOOSE i \in 1..Len(j.members) : j.members[i][1] = k][2]

\* a State with no property set
EmptyState ==
    [On |-> NilPtr, Brightness |-> NilPtr, ColorTemperature |-> NilPtr,
     Hue |-> NilPtr, Saturation |-> NilPtr, ColorMode |-> ""]

OnProperty(v) == [Value |-> v]
\* &BrightnessProperty{Value: v}, &HueProperty{Value: v}, ...: the fields not
\* named are zero
BrightnessProperty(v) == [Min |-> NilPtr, Max |-> NilPtr, Value |-> v, Duration |-> 0]
RangeProperty(v) == [Min |-> NilPtr, Max |-> NilPtr, Value |-> v]

----------------------------------------------------------------------------
(* rgbToHSL.  The code computes in float64; the model computes the same    *)
(* quantities as exact fractions.  r, g, b are red/255, green/255,         *)
(* blue/255, so every quantity below is an integer over a known            *)
(* denominator.  math.Round rounds half away from zero.  Where the exact   *)
(* value is not a tie (k + 1/2) the float64 result rounds as the exact     *)
(* value does (the float64 error is far below the distance to the nearest  *)
(* tie); where it is a tie, the float64 value may lie on either side of it *)
(* (rgbToHSL(0, 24, 1) gives hue 122 from an exact 122.5, and Go may fuse  *)
(* multiply-adds on some architectures), so the side is an input: up.      *)

\* num/den is exactly k + 1/2 (num >= 0, den > 0)
IsTie(num, den) == (2 * num) % den = 0 /\ ((2 * num) \div den) % 2 = 1

\* int(math.Round(num/den)), num >= 0, den > 0
Round(num, den, up) ==
    IF IsTie(num, den)
    THEN (IF up THEN ((2 * num) \div den + 1) \div 2 ELSE ((2 * num) \div den - 1) \div 2)
    ELSE (2 * num + den) \div (2 * den)

\* (mutant) nearly equal channels count as achromatic
AchromaticLoose(red, green, blue) ==
    Max2(Max2(red, green), blue) - Min2(Min2(red, green), blue) <= 1

\* c == 0: the achromatic branch is taken (c is max - min, here times 255)
Achromatic(red, green, blue) ==
    Max2(Max2(red, green), blue) - Min2(Min2(red, green), blue) = 0

\* (mutant) a negative hue is not brought back into the circle
HueNumNoWrap(red, green, blue) ==
    LET min == Min2(Min2(red, green), blue)
        max == Max2(Max2(red, green), blue)
        c == max - min
    IN CASE max = red -> 60 * (green - blue)
         [] max = green /\ max # red -> 60 * (2 * c + (blue - red))
         [] OTHER -> 60 * (4 * c + (red - green))

\* (mutant) the sector bases of green and blue are exchanged
HueNumSwapped(red, green, blue) ==
    LET min == Min2(Min2(red, green), blue)
        max == Max2(Max2(red, green), blue)
        c == max - min
        h == CASE max = red -> 60 * (green - blue)
               [] max = green /\ max # red -> 60 * (4 * c + (blue - red))
               [] OTHER -> 60 * (2 * c + (red - green))
    IN IF h < 0 THEN h + 360 * c ELSE h

\* h after `h *= 60` and `if h < 0 { h += 360 }`, as a numerator over c
HueNum(red, green, blue) ==
    LET min == Min2(Min2(red, green), blue)
        max == Max2(Max2(red, green), blue)
        c == max - min
        h == CASE max = red -> 60 * (green - blue)
               [] max = green /\ max # red -> 60 * (2 * c + (blue - red))
               [] OTHER -> 60 * (4 * c + (red - green))
    IN IF h < 0 THEN h + 360 * c ELSE h

\* fp.hueUp, fp.satUp: the side a tie falls on
rgbToHSL(red, green, blue, fp) ==
    LET min == Min2(Min2(red, green), blue)
        max == Max2(Max2(red, green), blue)
        c == max - min                      \* times 255
        l2 == max + min                     \* l = l2 / 510
        \* s = (v - l) / min(l, 1 - l) = c / min(l2, 510 - l2)
        sden == Min2(l2, 510 - l2)
    IN IF Achromatic(red, green, blue)
       THEN <<0, 0, Round(100 * l2, 510, TRUE)>>
       ELSE <<Round(HueNum(red, green, blue), c, fp.hueUp),
              Round(100 * c, sden, fp.satUp),
              Round(100 * l2, 510, TRUE)>>

\* the sides the ties of this input can fall on (one choice when the exact
\* value is no tie)
FpChoices(red, green, blue) ==
    LET min == Min2(Min2(red, green), blue)
        max == Max2(Max2(red, green), blue)
        c == max - min
        l2 == max + min
        hs == IF c > 0 /\ IsTie(HueNum(red, green, blue), c) THEN BOOLEAN ELSE {TRUE}
        ss == IF c > 0 /\ IsTie(100 * c, Min2(l2, 510 - l2)) THEN BOOLEAN ELSE {TRUE}
    IN {[hueUp |-> a, satUp |-> b] : a \in hs, b \in ss}

----------------------------------------------------------------------------
(* The external-control frame encoding (SetCustomColors, lines 324-342) *)

\* A []SetPanelColor is given by its length n and the frames it repeats:
\* frames[i] is pattern[i mod Len(pattern)] (a list of up to MaxFrames frames
\* is its own pattern).  This keeps a list of 65535 frames small.
FrameList(n, pattern) == [n |-> n, pattern |-> pattern]
\* len(frames)
NumFrames(frames) == frames.n
\* frames[i], 0 <= i < len(frames)
FrameAt(frames, i) == frames.pattern[(i % Len(frames.pattern)) + 1]

\* (mutant) little-endian
PutUint16LittleEndian(v) == <<v % 256, (v \div 256) % 256>>

\* binary.BigEndian.PutUint16: the two bytes written for v
PutUint16(v) == <<(v \div 256) % 256, v % 256>>

\* uint16(numPanels)
Uint16(n) == n % (MaxUint16 + 1)

\* the byte the loop body writes at offset + j for one panel, 0 <= j < 8
PanelByte(panel, j) ==
    CASE j \in {0, 1} -> PutUint16(panel.PanelID)[j + 1]
      [] j = 2 -> panel.Red
      [] j = 3 -> panel.Green
      [] j = 4 -> panel.Blue
      [] j = 5 -> panel.White
      [] j \in {6, 7} -> PutUint16(panel.TransitionTime)[j - 5]

\* (mutant) the count check off by one: 65535 frames are rejected too
CountRejectedOffByOne(numPanels) == numPanels < 0 \/ numPanels >= MaxUint16

\* the count check: the error return of line 325
CountRejected(numPanels) == numPanels < 0 \/ numPanels > MaxUint16

\* buf when conn.Write is reached: make() zeroes controlFrameSize bytes, the
\* header is written at 0 and panel i at headerSize + panelFrameSize*i; every
\* byte is written exactly once, byte k (from 0) by the write that covers it
BufByte(frames, k) ==
    IF k < headerSize
    THEN PutUint16(Uint16(NumFrames(frames)))[k + 1]
    ELSE LET i == (k - headerSize) \div panelFrameSize
             j == (k - headerSize) % panelFrameSize
         IN PanelByte(FrameAt(frames, i), j)

ControlFrame(frames) ==
    LET numPanels == NumFrames(frames)
        controlFrameSize == headerSize + panelFrameSize * numPanels
    \* (\o makes the function a sequence)
    IN [k \in 1..controlFrameSize |-> BufByte(frames, k - 1)] \o <<>>

----------------------------------------------------------------------------
(* The network, as the client sees it *)

Token == "tok"

\* Client.Host values: host:port, a second port, no port (ResolveTCPAddr
\* fails: missing port), and a host net/url does not parse (NewRequest fails)
Hosts ==
    {[name |-> "nanoleaf.local", hasPort |-> TRUE, port |-> 16021, urlOK |-> TRUE],
     [name |-> "leaf.lan", hasPort |-> TRUE, port |-> 8080, urlOK |-> TRUE],
     [name |-> "nanoleaf.local", hasPort |-> FALSE, port |-> 0, urlOK |-> TRUE],
     [name |-> "bad host", hasPort |-> TRUE, port |-> 16021, urlOK |-> FALSE]}

HostString(h) == IF h.hasPort THEN h.name \o ":" \o ToString(h.port) ELSE h.name

\* Client.Endpoint
Endpoint(h, path) == "http://" \o HostString(h) \o "/api/v1/" \o Token \o "/" \o path

\* what the device (or the network) answers to one HTTP request
Statuses == {200, 403}
Reply(kind, status, body) == [kind |-> kind, status |-> status, body |-> body]
Refused == Reply("refused", 0, "")
ReadFails == Reply("readerr", 200, "")
PutReplies == {Refused, ReadFails} \cup {Reply("ok", st, "") : st \in Statuses}

\* response bodies of a GET, with what json.Unmarshal makes of them
EffectNames == {"Flames", "Forest"}
ListBodies ==
    {[text |-> "[]", kind |-> "array", list |-> <<>>],
     [text |-> "[\"Flames\",\"Forest\"]", kind |-> "array", list |-> <<"Flames", "Forest">>],
     [text |-> "{\"select\":\"Flames\"}", kind |-> "object", list |-> <<>>],
     [text |-> "<html>", kind |-> "garbage", list |-> <<>>]}

\* DNS answers for the host name: no answer, an IPv4 address, an IPv6 address
DNSAnswers == {"fail", "192.168.1.20", "fe80::1"}
IsV6(ip) == ip = "fe80::1"

\* events
HttpReq(method, url, body, contentType) ==
    [kind |-> "httpReq", method |-> method, url |-> url, accept |-> "application/json",
     contentType |-> contentType, body |-> body]
HttpResp(status) == [kind |-> "httpResp", status |-> status]
BodyClose == [kind |-> "bodyClose"]
UdpOpen(ip, port) == [kind |-> "udpOpen", ip |-> ip, port |-> port]
UdpWrite(buf, ok) == [kind |-> "udpWrite", data |-> buf, ok |-> ok]
UdpClose == [kind |-> "udpClose"]

\* (mutant) a status of 300 or more is an error
RoundTripChecksStatus(h, req, reply) ==
    IF ~h.urlOK THEN [events |-> <<>>, body |-> "", err |-> "ErrNewRequest"]
    ELSE IF reply.kind = "refused"
    THEN [events |-> <<req>>, body |-> "", err |-> "ErrTransport"]
    ELSE [events |-> <<req, HttpResp(reply.status), BodyClose>>,
          body |-> IF reply.kind = "readerr" \/ reply.status >= 300 THEN "" ELSE reply.body,
          err |-> IF reply.kind = "readerr" THEN "ErrRead"
                  ELSE IF reply.status >= 300 THEN "ErrStatus" ELSE NoError]

\* (mutant) a refused request is sent a second time
RoundTripRetry(h, req, reply) ==
    IF ~h.urlOK THEN [events |-> <<>>, body |-> "", err |-> "ErrNewRequest"]
    ELSE IF reply.kind = "refused"
    THEN [events |-> <<req, req>>, body |-> "", err |-> "ErrTransport"]
    ELSE [events |-> <<req, HttpResp(reply.status), BodyClose>>,
          body |-> IF reply.kind = "readerr" THEN "" ELSE reply.body,
          err |-> IF reply.kind = "readerr" THEN "ErrRead" ELSE NoError]

\* c.client.Do(req) and the rest of Get/Put: the request is sent once; on a
\* response the body is read in full and closed (the deferred Close)
RoundTrip(h, req, reply) ==
    IF ~h.urlOK THEN [events |-> <<>>, body |-> "", err |-> "ErrNewRequest"]
    ELSE IF reply.kind = "refused"
    THEN [events |-> <<req>>, body |-> "", err |-> "ErrTransport"]
    ELSE IF reply.kind = "readerr"
    THEN [events |-> <<req, HttpResp(reply.status), BodyClose>>, body |-> "",
          err |-> "ErrRead"]
    ELSE [events |-> <<req, HttpResp(reply.status), BodyClose>>, body |-> reply.body,
          err |-> NoError]

\* Client.Get
Get(h, path, reply) ==
    RoundTrip(h, HttpReq("GET", Endpoint(h, path), NoBody, ""), reply)

\* Client.Put
Put(h, path, body, reply) ==
    RoundTrip(h, HttpReq("PUT", Endpoint(h, path), body, "application/json"), reply)

----------------------------------------------------------------------------
(* The client's operations.  c is the client (its Host); each operation    *)
(* gives the network operations it performs and what it returns.           *)

Result(evs, r) == [events |-> evs, ret |-> r]

\* Client.Off
Off(c, reply) ==
    LET state == [EmptyState EXCEPT !.On = Ptr(OnProperty(FALSE))]
        r == Put(c, "state", MarshalState(state), reply)
    IN Result(r.events, [err |-> r.err])

\* Client.On
On(c, reply) ==
    LET state == [EmptyState EXCEPT !.On = Ptr(OnProperty(TRUE))]
        r == Put(c, "state", MarshalState(state), reply)
    IN Result(r.events, [err |-> r.err])

\* Client.SelectEffect: Put's result is dropped, nil is returned
SelectEffect(c, name, reply) ==
    LET r == Put(c, "effects/select", MarshalEffectsSelectRequest(name), reply)
    IN Result(r.events, [err |-> NoError])

\* Client.SetBrightness: Put's result is dropped, nil is returned
SetBrightness(c, brightness, reply) ==
    LET state == [EmptyState EXCEPT !.Brightness = Ptr(BrightnessProperty(brightness))]
        r == Put(c, "state", MarshalState(state), reply)
    IN Result(r.events, [err |-> NoError])

\* (mutant) the temperature is sent as well as a brightness of 0
SetColorTemperatureWithBrightness(c, temperature, reply) ==
    LET state == [EmptyState EXCEPT !.ColorTemperature = Ptr(RangeProperty(temperature)),
                                    !.Brightness = Ptr(BrightnessProperty(0))]
        r == Put(c, "state", MarshalState(state), reply)
    IN Result(r.events, [err |-> NoError])

\* Client.SetColorTemperature: Put's result is dropped, nil is returned
SetColorTemperature(c, temperature, reply) ==
    LET state == [EmptyState EXCEPT !.ColorTemperature = Ptr(RangeProperty(temperature))]
        r == Put(c, "state", MarshalState(state), reply)
    IN Result(r.events, [err |-> NoError])

\* Client.SetHSL: Put's result is dropped, nil is returned
SetHSL(c, hue, sat, lightness, reply) ==
    LET state == [EmptyState EXCEPT !.Brightness = Ptr(BrightnessProperty(lightness)),
                                    !.Hue = Ptr(RangeProperty(hue)),
                                    !.Saturation = Ptr(RangeProperty(sat))]
        r == Put(c, "state", MarshalState(state), reply)
    IN Result(r.events, [err |-> NoError])

\* (mutant) saturation and lightness are passed in the wrong order
SetRGBSwapped(c, red, green, blue, fp, reply) ==
    LET hsl == rgbToHSL(red, green, blue, fp)
    IN SetHSL(c, hsl[1], hsl[3], hsl[2], reply)

\* Client.SetRGB
SetRGB(c, red, green, blue, fp, reply) ==
    LET hsl == rgbToHSL(red, green, blue, fp)
    IN SetHSL(c, hsl[1], hsl[2], hsl[3], reply)

\* {"write":{"command":"display","animType":"extControl","extControlVersion":"v2"}}
ExtControlBody ==
    JObj(Field("write", JObj(Field("command", JStr("display"))
                             \o Field("animType", JStr("extControl"))
                             \o Field("extControlVersion", JStr("v2")))))

\* (mutant) the request names version v1 of the protocol
startExternalControlV1(c, reply) ==
    Put(c, "effects",
        JObj(Field("write", JObj(Field("command", JStr("display"))
                                 \o Field("animType", JStr("extControl"))
                                 \o Field("extControlVersion", JStr("v1"))))),
        reply)

\* Client.startExternalControl
startExternalControl(c, reply) == Put(c, "effects", ExtControlBody, reply)

\* (mutant) the error of startExternalControl is dropped
ExternalControlFailedIgnored(put) == FALSE

\* (mutant) the datagram goes to the port of c.Host
RemoteAddrHostPort(c, ip) == [ip |-> ip, port |-> c.port]

\* `if err != nil { return err }` after startExternalControl
ExternalControlFailed(put) == put.err # NoError

\* raddr: hostAddr.IP and ExternalControlPort (the port of c.Host is dropped)
RemoteAddr(c, ip) == [ip |-> ip, port |-> ExternalControlPort]

\* Client.SetCustomColors.  env: the reply to the PUT, the DNS answer for
\* the host name, whether DialUDP and conn.Write succeed.
SetCustomColors(c, frames, env) ==
    LET put == startExternalControl(c, env.reply)
        numPanels == NumFrames(frames)
        raddr == RemoteAddr(c, env.dns)
        open == <<UdpOpen(raddr.ip, raddr.port)>>
    IN IF ExternalControlFailed(put) THEN Result(put.events, [err |-> put.err])
       \* net.ResolveTCPAddr("tcp", c.Host)
       ELSE IF ~c.hasPort THEN Result(put.events, [err |-> "ErrMissingPort"])
       ELSE IF env.dns = "fail" THEN Result(put.events, [err |-> "ErrNoSuchHost"])
       \* net.ResolveUDPAddr("udp", hostAddr.IP:60222): an IPv6 address is
       \* printed without brackets and does not parse
       ELSE IF IsV6(env.dns) THEN Result(put.events, [err |-> "ErrTooManyColons"])
       \* net.DialUDP
       ELSE IF ~env.dial THEN Result(put.events, [err |-> "ErrDial"])
       ELSE IF CountRejected(numPanels)
       THEN Result(put.events \o open, [err |-> "ErrPanelCount"])
       \* conn.Write's result is dropped
       ELSE Result(put.events \o open
                   \o <<UdpWrite(ControlFrame(frames), env.write), UdpClose>>,
                   [err |-> NoError])

\* json.Unmarshal into a []string
UnmarshalList(body) ==
    CASE body.kind = "array" -> [list |-> body.list, err |-> NoError]
      [] body.kind = "object" -> [list |-> <<>>, err |-> "ErrUnmarshalType"]
      [] OTHER -> [list |-> <<>>, err |-> "ErrSyntax"]

\* Client.ListEffects
ListEffects(c, reply) ==
    LET r == Get(c, "effects/effectsList", reply)
    IN IF r.err # NoError THEN Result(r.events, [list |-> <<>>, err |-> r.err])
       ELSE Result(r.events, UnmarshalList(r.body))

\* the zero PanelInfo, and documents the device may answer with
ZeroPanelInfo == [Name |-> "", State |-> EmptyState]
InfoBodies ==
    {[text |-> "{\"name\":\"Canvas\",\"state\":{\"on\":{\"value\":true}}}", kind |-> "object",
      info |-> [Name |-> "Canvas",
                State |-> [EmptyState EXCEPT !.On = Ptr(OnProperty(TRUE))]]],
     [text |-> "[]", kind |-> "array", info |-> ZeroPanelInfo],
     [text |-> "<html>", kind |-> "garbage", info |-> ZeroPanelInfo]}

\* json.Unmarshal into a PanelInfo
UnmarshalPanelInfo(body) ==
    CASE body.kind = "object" -> [info |-> body.info, err |-> NoError]
      [] body.kind = "array" -> [info |-> ZeroPanelInfo, err |-> "ErrUnmarshalType"]
      [] OTHER -> [info |-> ZeroPanelInfo, err |-> "ErrSyntax"]

\* (mutant) a body that does not parse is not handed back
GetPanelInfoParsedOnly(c, reply) ==
    LET r == Get(c, "", reply)
        u == UnmarshalPanelInfo(r.body)
    IN IF r.err # NoError
       THEN Result(r.events, [info |-> NilPtr, body |-> "", err |-> r.err])
       ELSE IF u.err # NoError
       THEN Result(r.events, [info |-> NilPtr, body |-> "", err |-> u.err])
       ELSE Result(r.events, [info |-> Ptr(u.info), body |-> r.body.text, err |-> u.err])

\* Client.GetPanelInfo
GetPanelInfo(c, reply) ==
    LET r == Get(c, "", reply)
        u == UnmarshalPanelInfo(r.body)
    IN IF r.err # NoError
       THEN Result(r.events, [info |-> NilPtr, body |-> "", err |-> r.err])
       ELSE Result(r.events, [info |-> Ptr(u.info), body |-> r.body.text, err |-> u.err])

----------------------------------------------------------------------------
(* Inputs *)

TieChannels == {8, 24, 127, 128}
Channels == (0..MaxChan) \cup TieChannels \cup ((255 - MaxChan)..255)

Brightnesses == {0, 50, 100}
Temperatures == {1200, 6500}
Hues == {0, 180, 360}
Saturations == {0, 100}

Frame(id, r, g, b, w, t) ==
    [PanelID |-> id, Red |-> r, Green |-> g, Blue |-> b, White |-> w,
     TransitionTime |-> t]
FrameSet == {Frame(1, 255, 0, 0, 0, 0), Frame(258, 3, 4, 5, 6, 1800)}

RECURSIVE SeqsUpTo(_, _)
SeqsUpTo(S, n) ==
    IF n = 0 THEN {<<>>}
    ELSE LET shorter == SeqsUpTo(S, n - 1)
         IN shorter \cup {Append(q, x) : q \in {p \in shorter : Len(p) = n - 1}, x \in S}

\* the longest list the count check accepts and the shortest it rejects
LongFrames ==
    {FrameList(n, <<Frame(1, 255, 0, 0, 0, 0), Frame(258, 3, 4, 5, 6, 1800),
                    Frame(65535, 255, 255, 255, 255, 65535)>>) :
        n \in {MaxUint16, MaxUint16 + 1}}
FrameLists == {FrameList(Len(q), q) : q \in SeqsUpTo(FrameSet, MaxFrames)} \cup LongFrames

CustomEnvs ==
    [reply : PutReplies, dns : DNSAnswers, dial : BOOLEAN, write : BOOLEAN]
\* the long lists are drawn with one HTTP status and one failing DNS answer
LongEnvs ==
    [reply : {Refused, Reply("ok", 200, "")}, dns : {"fail", "192.168.1.20"},
     dial : BOOLEAN, write : BOOLEAN]
CustomInputs ==
    {<<frames, env>> : frames \in FrameLists \ LongFrames, env \in CustomEnvs}
    \cup {<<frames, env>> : frames \in LongFrames, env \in LongEnvs}

GetReplies(bodies) == {Refused, ReadFails} \cup {Reply("ok", st, b) : st \in Statuses, b \in bodies}

----------------------------------------------------------------------------
(* The process: one command, one client operation *)

Init ==
    /\ host \in Hosts
    /\ argv = <<>>
    /\ pc = "idle"
    /\ op = "none"
    /\ args = <<>>
    /\ net = <<>>
    /\ events = <<>>
    /\ ret = [err |-> NoError]

\* the process is at its command
Idle == pc = "idle"

Ran(name, a, n, r) ==
    /\ pc' = "done"
    /\ op' = name
    /\ args' = a
    /\ net' = n
    /\ events' = r.events
    /\ ret' = r.ret
    /\ UNCHANGED <<host, argv>>

DoOff == Idle /\ \E reply \in PutReplies : Ran("Off", <<>>, reply, Off(host, reply))

DoOn == Idle /\ \E reply \in PutReplies : Ran("On", <<>>, reply, On(host, reply))

DoSelectEffect ==
    Idle /\ \E name \in EffectNames, reply \in PutReplies :
        Ran("SelectEffect", <<name>>, reply, SelectEffect(host, name, reply))

DoSetBrightness ==
    Idle /\ \E b \in Brightnesses, reply \in PutReplies :
        Ran("SetBrightness", <<b>>, reply, SetBrightness(host, b, reply))

DoSetColorTemperature ==
    Idle /\ \E t \in Temperatures, reply \in PutReplies :
        Ran("SetColorTemperature", <<t>>, reply, SetColorTemperature(host, t, reply))

DoSetHSL ==
    Idle /\ \E h \in Hues, s \in Saturations, l \in Brightnesses, reply \in PutReplies :
        Ran("SetHSL", <<h, s, l>>, reply, SetHSL(host, h, s, l, reply))

DoSetRGB ==
    Idle /\ \E r \in Channels, g \in Channels, b \in Channels, reply \in PutReplies :
        \E fp \in FpChoices(r, g, b) :
            Ran("SetRGB", <<r, g, b, fp>>, reply, SetRGB(host, r, g, b, fp, reply))

DoSetCustomColors ==
    Idle /\ \E in \in CustomInputs :
        Ran("SetCustomColors", in[1], in[2], SetCustomColors(host, in[1], in[2]))

DoListEffects ==
    Idle /\ \E reply \in GetReplies(ListBodies) :
        Ran("ListEffects", <<>>, reply, ListEffects(host, reply))

DoGetPanelInfo ==
    Idle /\ \E reply \in GetReplies(InfoBodies) :
        Ran("GetPanelInfo", <<>>, reply, GetPanelInfo(host, reply))

Next ==
    \/ DoOff
    \/ DoOn
    \/ DoSelectEffect
    \/ DoSetBrightness
    \/ DoSetColorTemperature
    \/ DoSetHSL
    \/ DoSetRGB
    \/ DoSetCustomColors
    \/ DoListEffects
    \/ DoGetPanelInfo

Spec == Init /\ [][Next]_vars

----------------------------------------------------------------------------
(* The pure functions on drawn inputs: rgbToHSL on a colour, json.Marshal  *)
(* on a State.                                                             *)

ZeroOrSet(zero, set) == {NilPtr, Ptr(zero), Ptr(set)}
Ranged(min, max, v) == [Min |-> Ptr(min), Max |-> Ptr(max), Value |-> v]

StateInputs ==
    [On : ZeroOrSet(OnProperty(FALSE), OnProperty(TRUE)),
     Brightness : ZeroOrSet(BrightnessProperty(0),
                            [Min |-> Ptr(0), Max |-> Ptr(100), Value |-> 50, Duration |-> 10]),
     ColorTemperature : ZeroOrSet(RangeProperty(0), Ranged(1200, 6500, 4000)),
     Hue : ZeroOrSet(RangeProperty(0), Ranged(0, 360, 120)),
     Saturation : ZeroOrSet(RangeProperty(0), Ranged(0, 100, 80)),
     ColorMode : {"", "hs"}]

ColourInputs ==
    {<<r, g, b, fp>> : r \in Channels, g \in Channels, b \in Channels,
                       fp \in [hueUp : BOOLEAN, satUp : BOOLEAN]}

InitPure ==
    /\ host = CHOOSE h \in Hosts : h.hasPort /\ h.urlOK
    /\ argv = <<>>
    /\ pc = "input"
    /\ \/ op = "rgbToHSL" /\ args \in {in \in ColourInputs : in[4] \in FpChoices(in[1], in[2], in[3])}
       \/ op = "MarshalState" /\ args \in {<<st>> : st \in StateInputs}
    /\ net = <<>>
    /\ events = <<>>
    /\ ret = <<>>

Applied(r) ==
    /\ pc' = "done"
    /\ ret' = r
    /\ UNCHANGED <<host, argv, op, args, net, events>>

ApplyRgbToHSL ==
    pc = "input" /\ op = "rgbToHSL" /\ Applied(rgbToHSL(args[1], args[2], args[3], args[4]))

ApplyMarshalState ==
    pc = "input" /\ op = "MarshalState" /\ Applied(MarshalState(args[1]))

NextPure ==
    \/ ApplyRgbToHSL
    \/ ApplyMarshalState

SpecPure == InitPure /\ [][NextPure]_vars

----------------------------------------------------------------------------
(* The command line.  flag.Args() is a sequence of words, a word a         *)
(* sequence of characters.                                                 *)

DigitChars == {"0", "1", "2", "3", "4", "5", "6", "7", "8", "9"}
DigitVal(ch) ==
    CASE ch = "0" -> 0 [] ch = "1" -> 1 [] ch = "2" -> 2 [] ch = "3" -> 3
      [] ch = "4" -> 4 [] ch = "5" -> 5 [] ch = "6" -> 6 [] ch = "7" -> 7
      [] ch = "8" -> 8 [] ch = "9" -> 9

\* the value of the first n digits of s, or MaxInt + 1 once it exceeds MaxInt
RECURSIVE Decimal(_, _)
Decimal(s, n) ==
    IF n = 0 THEN 0
    ELSE LET acc == Decimal(s, n - 1)
             d == DigitVal(s[n])
         IN IF acc > (MaxInt - d) \div 10 THEN MaxInt + 1 ELSE acc * 10 + d

AllDigits(s) == s # <<>> /\ \A i \in 1..Len(s) : s[i] \in DigitChars

\* strconv.Atoi: an optional sign, then decimal digits only
Atoi(s) ==
    LET signed == s # <<>> /\ s[1] \in {"+", "-"}
        digits == IF signed THEN Tail(s) ELSE s
        v == Decimal(digits, Len(digits))
    IN IF ~AllDigits(digits) THEN [val |-> 0, err |-> "ErrSyntax"]
       ELSE IF v > MaxInt THEN [val |-> MaxInt, err |-> "ErrRange"]
       ELSE [val |-> IF s[1] = "-" THEN 0 - v ELSE v, err |-> NoError]

\* os.Exit(1) before the client was called
Exit1 == [pc |-> "exit1", op |-> "none", args |-> <<>>, events |-> <<>>,
          ret |-> [err |-> NoError]]

\* the client's operation `name` was called with arguments a and gave r; on
\* an error the command prints it and exits with 1, else main returns
Called(name, a, r) ==
    [pc |-> IF r.ret.err # NoError THEN "exit1" ELSE "exit0",
     op |-> name, args |-> a, events |-> r.events, ret |-> r.ret]

\* (mutant) brightness is not checked against 0..100
doBrightnessCommandUnchecked(client, cargs, reply) ==
    IF Len(cargs) < 1 THEN Exit1
    ELSE LET brightness == Atoi(cargs[1])
         IN IF brightness.err # NoError THEN Exit1
            ELSE Called("SetBrightness", <<brightness.val>>,
                        SetBrightness(client, brightness.val, reply))

doBrightnessCommand(client, cargs, reply) ==
    IF Len(cargs) < 1 THEN Exit1
    ELSE LET brightness == Atoi(cargs[1])
         IN IF brightness.err # NoError \/ brightness.val < 0 \/ brightness.val > 100
            THEN Exit1
            ELSE Called("SetBrightness", <<brightness.val>>,
                        SetBrightness(client, brightness.val, reply))

doColorTemperatureCommand(client, cargs, reply) ==
    IF Len(cargs) < 1 THEN Exit1
    ELSE LET temp == Atoi(cargs[1])
         IN IF temp.err # NoError \/ temp.val < 1200 \/ temp.val > 6500
            THEN Exit1
            ELSE Called("SetColorTemperature", <<temp.val>>,
                        SetColorTemperature(client, temp.val, reply))

doHSLCommand(client, cargs, reply) ==
    IF Len(cargs) # 3 THEN Exit1
    ELSE LET hue == Atoi(cargs[1])
             sat == Atoi(cargs[2])
             lightness == Atoi(cargs[3])
         IN IF hue.err # NoError \/ hue.val < 0 \/ hue.val > 360 THEN Exit1
            ELSE IF sat.err # NoError \/ sat.val < 0 \/ sat.val > 100 THEN Exit1
            ELSE IF lightness.err # NoError \/ lightness.val < 0 \/ lightness.val > 100
            THEN Exit1
            ELSE Called("SetHSL", <<hue.val, sat.val, lightness.val>>,
                        SetHSL(client, hue.val, sat.val, lightness.val, reply))

\* fp: the side float64 falls on where rgbToHSL rounds an exact half
doRGBCommand(client, cargs, fp, reply) ==
    IF Len(cargs) # 3 THEN Exit1
    ELSE LET red == Atoi(cargs[1])
             green == Atoi(cargs[2])
             blue == Atoi(cargs[3])
         IN IF red.err # NoError \/ red.val < 0 \/ red.val > 255 THEN Exit1
            ELSE IF green.err # NoError \/ green.val < 0 \/ green.val > 255 THEN Exit1
            ELSE IF blue.err # NoError \/ blue.val < 0 \/ blue.val > 255 THEN Exit1
            ELSE Called("SetRGB", <<red.val, green.val, blue.val>>,
                        SetRGB(client, red.val, green.val, blue.val, fp, reply))

\* strconv.ParseUint(s, 10, bitSize): decimal digits only, no sign, and a
\* value that fits bitSize bits (8 or 16)
ParseUint(s, bitSize) ==
    LET v == Decimal(s, Len(s))
        max == IF bitSize = 8 THEN 255 ELSE MaxUint16
    IN IF ~AllDigits(s) THEN [val |-> 0, err |-> "ErrSyntax"]
       ELSE IF v > max THEN [val |-> max, err |-> "ErrRange"]
       ELSE [val |-> v, err |-> NoError]

\* the five words of frame i (from 0) of `effect custom`, parsed
FrameWords(customArgs, i) ==
    LET offset == 5 * i
    IN [panelID |-> ParseUint(customArgs[offset + 1], 16),
        red |-> ParseUint(customArgs[offset + 2], 8),
        green |-> ParseUint(customArgs[offset + 3], 8),
        blue |-> ParseUint(customArgs[offset + 4], 8),
        transitionTime |-> ParseUint(customArgs[offset + 5], 16)]

\* `effect custom`: a word count that is not a multiple of 5 only prints the
\* usage line, the words beyond the last full group are not read; any word
\* that does not parse ends the process with 1; White is left at its zero
doEffectCustom(client, customArgs, env) ==
    LET numFrames == Len(customArgs) \div 5
        parsed == [i \in 1..numFrames |-> FrameWords(customArgs, i - 1)]
        Failed(f) == \/ f.panelID.err # NoError
                     \/ f.red.err # NoError
                     \/ f.green.err # NoError
                     \/ f.blue.err # NoError
                     \/ f.transitionTime.err # NoError
        frames == [i \in 1..numFrames |->
                      Frame(Uint16(parsed[i].panelID.val), parsed[i].red.val % 256,
                            parsed[i].green.val % 256, parsed[i].blue.val % 256, 0,
                            Uint16(parsed[i].transitionTime.val))] \o <<>>
    IN IF \E i \in 1..numFrames : Failed(parsed[i]) THEN Exit1
       ELSE Called("SetCustomColors", FrameList(numFrames, frames),
                   SetCustomColors(client, FrameList(numFrames, frames), env))

\* n: what the network answers to the client's operation
doEffectCommand(client, cargs, n) ==
    IF Len(cargs) < 1 THEN Exit1
    ELSE CASE cargs[1] = "custom" -> doEffectCustom(client, Tail(cargs), n)
           [] cargs[1] = "list" -> Called("ListEffects", <<>>, ListEffects(client, n))
           [] cargs[1] = "select" ->
                IF Len(cargs) # 2 THEN Exit1
                ELSE Called("SelectEffect", <<cargs[2]>>, SelectEffect(client, cargs[2], n))
           [] OTHER -> Exit1

\* the pointers `panel info` and `panel state` dereference to print the
\* state: State.On, and each of State.Hue, Saturation, Brightness and
\* ColorTemperature with its Min and Max
RangeDerefs(p) == IF IsNil(p) THEN <<p>> ELSE <<p, Deref(p).Min, Deref(p).Max>>
StateDerefs(state) ==
    <<state.On>> \o RangeDerefs(state.Hue) \o RangeDerefs(state.Saturation)
    \o RangeDerefs(state.Brightness) \o RangeDerefs(state.ColorTemperature)

\* printing the state dereferences a nil pointer
PrintStatePanics(state) ==
    \E i \in 1..Len(StateDerefs(state)) : IsNil(StateDerefs(state)[i])

\* the client was called and gave r, then the command dereferenced nil
Panicked(name, a, r) ==
    [pc |-> "panic", op |-> name, args |-> a, events |-> r.events, ret |-> r.ret]

\* the panel info is fetched before the sub-command is looked at
doPanelCommand(client, cargs, reply) ==
    IF Len(cargs) # 1 THEN Exit1
    ELSE LET r == GetPanelInfo(client, reply)
             command == cargs[1]
         IN IF r.ret.err # NoError THEN Called("GetPanelInfo", <<>>, r)
            ELSE IF command \in {"info", "state"}
            THEN IF PrintStatePanics(Deref(r.ret.info).State)
                 THEN Panicked("GetPanelInfo", <<>>, r)
                 ELSE Called("GetPanelInfo", <<>>, r)
            ELSE IF command \in {"info_json", "layout", "model", "name", "version"}
            THEN Called("GetPanelInfo", <<>>, r)
            \* usage(): os.Exit(1) after the request
            ELSE [Called("GetPanelInfo", <<>>, r) EXCEPT !.pc = "exit1"]

\* words of the command line, each with the integer it denotes as a decimal
\* numeral (if it denotes one that an int holds)
Numeral(w, v) == [word |-> w, isInt |-> TRUE, val |-> v]
NotNumeral(w) == [word |-> w, isInt |-> FALSE, val |-> 0]
WordTable ==
    {NotNumeral(<<>>),
     NotNumeral(<<"a", "b", "c">>),
     NotNumeral(<<"1", "e", "2">>),
     NotNumeral(<<"5", ".", "0">>),
     NotNumeral(<<"9", "9", "9", "9", "9", "9", "9", "9", "9", "9",
                  "9", "9", "9", "9", "9", "9", "9", "9", "9", "9">>),
     Numeral(<<"-", "1">>, 0 - 1),
     Numeral(<<"0">>, 0),
     Numeral(<<"+", "7">>, 7),
     Numeral(<<"1", "0", "0">>, 100),
     Numeral(<<"1", "0", "1">>, 101),
     Numeral(<<"2", "5", "5">>, 255),
     Numeral(<<"2", "5", "6">>, 256),
     Numeral(<<"3", "6", "0">>, 360),
     Numeral(<<"3", "6", "1">>, 361),
     Numeral(<<"1", "1", "9", "9">>, 1199),
     Numeral(<<"1", "2", "0", "0">>, 1200),
     Numeral(<<"6", "5", "0", "0">>, 6500),
     Numeral(<<"6", "5", "0", "1">>, 6501)}
Words == {e.word : e \in WordTable}

\* the argument lists of the given lengths
ArgLists(lens) == UNION {[1..n -> Words] : n \in lens}

CliReplies == {Refused, Reply("ok", 200, ""), Reply("ok", 403, "")}

\* a command has run to its exit: r is what its handler gave, n what the
\* network answered to the client (kept only if the client was called)
RanCommand(cmd, cargs, n, r) ==
    /\ pc' = r.pc
    /\ op' = r.op
    /\ args' = r.args
    /\ net' = IF r.op = "none" THEN <<>> ELSE n
    /\ events' = r.events
    /\ ret' = r.ret
    /\ argv' = <<cmd>> \o cargs
    /\ UNCHANGED host

DoBrightnessCommand ==
    Idle /\ \E cargs \in ArgLists(0..2), reply \in CliReplies :
        RanCommand("brightness", cargs, reply, doBrightnessCommand(host, cargs, reply))

DoColorTemperatureCommand ==
    Idle /\ \E cargs \in ArgLists(0..2), reply \in CliReplies :
        RanCommand("temp", cargs, reply, doColorTemperatureCommand(host, cargs, reply))

DoHSLCommand ==
    Idle /\ \E cargs \in ArgLists(2..3), reply \in CliReplies :
        RanCommand("hsl", cargs, reply, doHSLCommand(host, cargs, reply))

DoRGBCommand ==
    Idle /\ \E cargs \in ArgLists(2..3), reply \in CliReplies,
               fp \in [hueUp : BOOLEAN, satUp : BOOLEAN] :
        RanCommand("rgb", cargs, [reply |-> reply, fp |-> fp],
                   doRGBCommand(host, cargs, fp, reply))

\* the words of frames: the ends of the 8-bit and 16-bit ranges
FrameWordTable ==
    {Numeral(<<"1">>, 1),
     Numeral(<<"6", "5", "5", "3", "5">>, 65535),
     Numeral(<<"6", "5", "5", "3", "6">>, 65536)}

\* groups of five words: two frames at the ends of the ranges, and groups
\* with one word that does not parse as the unsigned integer of its field
FrameGroups ==
    {<< <<"1">>, <<"2", "5", "5">>, <<"0">>, <<"0">>, <<"0">> >>,
     << <<"6", "5", "5", "3", "5">>, <<"0">>, <<"2", "5", "5">>, <<"1", "0", "0">>,
        <<"6", "5", "5", "3", "5">> >>,
     << <<"6", "5", "5", "3", "6">>, <<"0">>, <<"0">>, <<"0">>, <<"0">> >>,
     << <<"1">>, <<"2", "5", "6">>, <<"0">>, <<"0">>, <<"0">> >>,
     << <<"1">>, <<"0">>, <<"a", "b", "c">>, <<"0">>, <<"0">> >>,
     << <<"1">>, <<"0">>, <<"0">>, <<"-", "1">>, <<"0">> >>,
     << <<"1">>, <<"0">>, <<"0">>, <<"0">>, <<"6", "5", "5", "3", "6">> >>}

\* words left over after the last full group
FrameTails == {<<>>, << <<"1">> >>, << <<"1">>, <<"2", "5", "5">>, <<"a", "b", "c">> >>}

RECURSIVE Flatten(_)
Flatten(groups) == IF groups = <<>> THEN <<>> ELSE Head(groups) \o Flatten(Tail(groups))

CustomArgLists ==
    {Flatten(groups) \o tail : groups \in SeqsUpTo(FrameGroups, MaxFrames), tail \in FrameTails}

\* the arguments of `effect` with what the network answers
EffectInputs ==
    {<< <<"custom">> \o words, env >> : words \in CustomArgLists, env \in CustomEnvs}
    \cup {<< <<"list">>, reply >> : reply \in GetReplies(ListBodies)}
    \cup {<< <<"select", name>>, reply >> : name \in EffectNames, reply \in CliReplies}
    \cup {<< <<"select">>, Refused >>, << <<"play">>, Refused >>, << <<>>, Refused >>}

DoEffectCommand ==
    Idle /\ \E in \in EffectInputs :
        RanCommand("effect", in[1], in[2], doEffectCommand(host, in[1], in[2]))

\* a full state as the device reports it, and documents that parse with
\* parts of it absent
FullState ==
    [On |-> Ptr(OnProperty(TRUE)),
     Brightness |-> Ptr([Min |-> Ptr(0), Max |-> Ptr(100), Value |-> 50, Duration |-> 0]),
     ColorTemperature |-> Ptr(Ranged(1200, 6500, 4000)),
     Hue |-> Ptr(Ranged(0, 360, 120)),
     Saturation |-> Ptr(Ranged(0, 100, 80)),
     ColorMode |-> "hs"]
PanelBodies ==
    InfoBodies \cup
    {[text |-> "{\"name\":\"Canvas\",\"state\":{\"on\":{\"value\":true},\"brightness\":{\"value\":50,\"max\":100,\"min\":0},\"ct\":{\"value\":4000,\"max\":6500,\"min\":1200},\"hue\":{\"value\":120,\"max\":360,\"min\":0},\"sat\":{\"value\":80,\"max\":100,\"min\":0},\"colorMode\":\"hs\"}}",
      kind |-> "object", info |-> [Name |-> "Canvas", State |-> FullState]],
     [text |-> "{\"name\":\"Canvas\",\"state\":{\"on\":{\"value\":true},\"brightness\":{\"value\":50,\"max\":100,\"min\":0},\"ct\":{\"value\":4000,\"max\":6500,\"min\":1200},\"hue\":{\"value\":120},\"sat\":{\"value\":80,\"max\":100,\"min\":0},\"colorMode\":\"hs\"}}",
      kind |-> "object",
      info |-> [Name |-> "Canvas",
                State |-> [FullState EXCEPT !.Hue = Ptr(RangeProperty(120))]]],
     [text |-> "{\"name\":\"Canvas\",\"state\":{\"brightness\":{\"value\":50,\"max\":100,\"min\":0},\"ct\":{\"value\":4000,\"max\":6500,\"min\":1200},\"hue\":{\"value\":120,\"max\":360,\"min\":0},\"sat\":{\"value\":80,\"max\":100,\"min\":0},\"colorMode\":\"hs\"}}",
      kind |-> "object",
      info |-> [Name |-> "Canvas", State |-> [FullState EXCEPT !.On = NilPtr]]],
     [text |-> "{}", kind |-> "object", info |-> ZeroPanelInfo]}

PanelArgLists ==
    {<<>>, <<"info">>, <<"info_json">>, <<"layout">>, <<"model">>, <<"name">>,
     <<"state">>, <<"version">>, <<"reset">>, <<"info", "state">>}

DoPanelCommand ==
    Idle /\ \E cargs \in PanelArgLists, reply \in GetReplies(PanelBodies) :
        RanCommand("panel", cargs, reply, doPanelCommand(host, cargs, reply))

NextCli ==
    \/ DoBrightnessCommand
    \/ DoColorTemperatureCommand
    \/ DoHSLCommand
    \/ DoRGBCommand
    \/ DoEffectCommand
    \/ DoPanelCommand

SpecCli == Init /\ [][NextCli]_vars

----------------------------------------------------------------------------
(* Claims about rgbToHSL (checked under SpecPure) *)

Converted == pc = "done" /\ op = "rgbToHSL"
AllEqual == args[1] = args[2] /\ args[2] = args[3]

\* C6, as stated: for every (r,g,b) in 0..255 cubed rgbToHSL returns a hue h
\* with 0 <= h < 360 (360 is never returned), a saturation in 0..100 and a
\* lightness in 0..100.  Violated: rgbToHSL(255, 0, 1) returns hue 360.
C6_HueBelow360 ==
    Converted => /\ ret[1] >= 0 /\ ret[1] < 360
                 /\ ret[2] \in 0..100
                 /\ ret[3] \in 0..100

\* C6, amended: for every (r,g,b) in 0..255 cubed rgbToHSL returns a hue h
\* with 0 <= h <= 360 (360 is returned when the hue before rounding is at
\* least 359.5), a saturation in 0..100 and a lightness in 0..100.
C6_HSLRange ==
    Converted => /\ ret[1] \in 0..360
                 /\ ret[2] \in 0..100
                 /\ ret[3] \in 0..100

\* rgbToHSL(255, 0, 1) has returned hue 360
C6_Witness == Converted /\ args[1] = 255 /\ args[2] = 0 /\ args[3] = 1 /\ ret[1] = 360

\* C7: for every x in 0..255 rgbToHSL(x,x,x) returns hue 0, saturation 0 and
\* lightness round(100*x/255), rounded to nearest with ties away from zero;
\* and the achromatic branch is taken only when the three channels are equal.
C7_Achromatic ==
    Converted =>
        /\ AllEqual => ret = <<0, 0, (200 * args[1] + 255) \div 510>>
        /\ Achromatic(args[1], args[2], args[3]) <=> AllEqual

\* rgbToHSL(128, 128, 128) has returned (0, 0, 50)
C7_Witness == Converted /\ AllEqual /\ args[1] = 128 /\ ret = <<0, 0, 50>>

ReferenceColours ==
    {<< <<255, 0, 0>>, <<0, 100, 50>> >>,
     << <<0, 255, 0>>, <<120, 100, 50>> >>,
     << <<0, 0, 255>>, <<240, 100, 50>> >>,
     << <<255, 255, 255>>, <<0, 0, 100>> >>,
     << <<0, 0, 0>>, <<0, 0, 0>> >>}

\* C8: rgbToHSL maps the reference colours exactly: (255,0,0) -> (0,100,50),
\* (0,255,0) -> (120,100,50), (0,0,255) -> (240,100,50),
\* (255,255,255) -> (0,0,100), (0,0,0) -> (0,0,0).
C8_ReferenceColours ==
    Converted =>
        \A ref \in ReferenceColours :
            <<args[1], args[2], args[3]>> = ref[1] => ret = ref[2]

\* rgbToHSL(0, 0, 255) has returned (240, 100, 50)
C8_Witness == Converted /\ <<args[1], args[2], args[3]>> = <<0, 0, 255>> /\ ret = <<240, 100, 50>>

----------------------------------------------------------------------------
(* Claims about the JSON encoding of State (checked under SpecPure) *)

Marshalled == pc = "done" /\ op = "MarshalState"

PropertyKeys == {"on", "brightness", "ct", "hue", "sat"}
PropertyOf(st, key) ==
    CASE key = "on" -> st.On
      [] key = "brightness" -> st.Brightness
      [] key = "ct" -> st.ColorTemperature
      [] key = "hue" -> st.Hue
      [] key = "sat" -> st.Saturation
SetProperties(st) == {key \in PropertyKeys : ~IsNil(PropertyOf(st, key))}

\* C9: serializing a State in which only a subset of the properties
\* {on, brightness, ct, hue, sat} is set gives a JSON object whose top-level
\* keys are exactly that subset (an unset property has no key: not null, not
\* a zero value), and a set property whose value is 0 or false is emitted
\* with that value.  (colorMode, which no request sets, adds its key when it
\* is not empty.)
C9_SparseState ==
    Marshalled =>
        LET st == args[1]
        IN /\ ret.t = "obj"
           /\ Len(ret.members) = Cardinality(Keys(ret))
           /\ Keys(ret) = SetProperties(st)
                          \cup (IF st.ColorMode = "" THEN {} ELSE {"colorMode"})
           /\ \A key \in SetProperties(st) :
                 LET v == Member(ret, key)
                 IN /\ v.t = "obj"
                    /\ "value" \in Keys(v)
                    /\ Member(v, "value") =
                          IF key = "on" THEN JBool(Deref(PropertyOf(st, key)).Value)
                          ELSE JNum(Deref(PropertyOf(st, key)).Value)

\* a State with only brightness = 0 and hue = 0 set has been serialized to
\* {"brightness":{"value":0},"hue":{"value":0}}
C9_Witness ==
    /\ Marshalled
    /\ SetProperties(args[1]) = {"brightness", "hue"}
    /\ args[1].ColorMode = ""
    /\ Deref(args[1].Brightness).Value = 0
    /\ Deref(args[1].Hue).Value = 0
    /\ ret = JObj(<< <<"brightness", JObj(<< <<"value", JNum(0)>> >>)>>,
                     <<"hue", JObj(<< <<"value", JNum(0)>> >>)>> >>)

----------------------------------------------------------------------------
(* Claims about the client's operations (checked under Spec) *)

Done(name) == pc = "done" /\ op = name

RestOps ==
    {"On", "Off", "SetBrightness", "SetColorTemperature", "SetHSL", "SetRGB",
     "SelectEffect", "ListEffects", "GetPanelInfo"}

UdpKinds == {"udpOpen", "udpWrite", "udpClose"}
EventsOfKind(kinds) == {i \in 1..Len(events) : events[i].kind \in kinds}

\* C1: when the HTTP request fails with a transport error (connection
\* refused), every REST operation (On, Off, SetBrightness,
\* SetColorTemperature, SetHSL, SetRGB, SelectEffect, ListEffects,
\* GetPanelInfo) returns a non-nil error.  Violated: SelectEffect,
\* SetBrightness, SetColorTemperature, SetHSL and SetRGB drop Put's error and
\* return nil.
C1_TransportErrorReturned ==
    (pc = "done" /\ op \in RestOps /\ host.urlOK /\ net.kind = "refused")
        => ret.err # NoError

\* the PUT of SetCustomColors failed (no request could be built, the
\* connection was refused, or the response could not be read)
EnableFailed == ~host.urlOK \/ net.reply.kind # "ok"
EnableError ==
    IF ~host.urlOK THEN "ErrNewRequest"
    ELSE IF net.reply.kind = "refused" THEN "ErrTransport" ELSE "ErrRead"

\* everything SetCustomColors asks of the network succeeds
CustomAllOK ==
    /\ host.urlOK /\ host.hasPort
    /\ net.reply.kind = "ok"
    /\ net.dns # "fail" /\ ~IsV6(net.dns)
    /\ net.dial

\* C2: if the PUT that enables external control fails, SetCustomColors
\* returns that error, opens no UDP socket and sends no UDP datagram.
C2_EnableFailureAborts ==
    (Done("SetCustomColors") /\ EnableFailed)
        => /\ ret.err = EnableError
           /\ EventsOfKind(UdpKinds) = {}

\* the PUT was refused although the address resolves and a socket could be
\* opened, for a list with frames: the error came back and nothing but the
\* request happened
C2_Witness ==
    /\ Done("SetCustomColors")
    /\ host.urlOK /\ host.hasPort
    /\ net.reply.kind = "refused" /\ net.dns = "192.168.1.20" /\ net.dial /\ net.write
    /\ NumFrames(args) = 2
    /\ ret.err = "ErrTransport"
    /\ Len(events) = 1 /\ events[1].kind = "httpReq"

\* C3: SetCustomColors given more than 65535 frames returns an error and
\* sends no UDP datagram (none truncated, none with a wrapped count); for
\* every frame count in 0..65535 the count check does not reject (and the call
\* succeeds, with one datagram, when the network does).
C3_CountLimit ==
    Done("SetCustomColors") =>
        /\ NumFrames(args) > 65535 =>
              /\ ret.err # NoError
              /\ EventsOfKind({"udpWrite"}) = {}
        /\ NumFrames(args) \in 0..65535 =>
              /\ ret.err # "ErrPanelCount"
              /\ CustomAllOK => /\ ret.err = NoError
                                /\ Cardinality(EventsOfKind({"udpWrite"})) = 1

\* 65536 frames were given, the network did all it was asked, and the call
\* returned the count error without a datagram
C3_Witness ==
    /\ Done("SetCustomColors")
    /\ NumFrames(args) = 65536
    /\ CustomAllOK
    /\ ret.err = "ErrPanelCount"
    /\ EventsOfKind({"udpWrite"}) = {}

\* the datagram of a SetCustomColors that reached conn.Write
Datagram == events[CHOOSE i \in 1..Len(events) : events[i].kind = "udpWrite"].data

\* C4: for every frame list of length n in 0..65535 the datagram built by
\* SetCustomColors has length 2 + 8n; bytes 0-1 are n, big-endian; for each
\* i < n the 8 bytes at offset 2 + 8i are frame i's panel ID (16-bit
\* big-endian), red, green, blue, white and transition time (16-bit
\* big-endian), frames in input order.  0 frames give 00 00, and the frame
\* {panelID 1, red 255, green 0, blue 0, white 0, transition 0} gives
\* 00 01 00 01 FF 00 00 00 00 00.
C4_DatagramLayout ==
    (Done("SetCustomColors") /\ EventsOfKind({"udpWrite"}) # {}) =>
        LET n == NumFrames(args)
            d == Datagram
            Byte(k) == d[k + 1]    \* byte k, from 0
        IN /\ n \in 0..65535
           /\ Len(d) = 2 + 8 * n
           /\ 256 * Byte(0) + Byte(1) = n
           /\ \A k \in 0..(2 + 8 * n - 1) : Byte(k) \in 0..255
           /\ \A i \in 0..(n - 1) :
                 LET f == FrameAt(args, i)
                     at == 2 + 8 * i
                 IN /\ 256 * Byte(at) + Byte(at + 1) = f.PanelID
                    /\ Byte(at + 2) = f.Red
                    /\ Byte(at + 3) = f.Green
                    /\ Byte(at + 4) = f.Blue
                    /\ Byte(at + 5) = f.White
                    /\ 256 * Byte(at + 6) + Byte(at + 7) = f.TransitionTime
           /\ n = 0 => d = <<0, 0>>
           /\ (n = 1 /\ FrameAt(args, 0) = Frame(1, 255, 0, 0, 0, 0))
                 => d = <<0, 1, 0, 1, 255, 0, 0, 0, 0, 0>>

\* the single frame {1, 255, 0, 0, 0, 0} was sent as 00 01 00 01 FF 00 00 00 00 00
C4_Witness ==
    /\ Done("SetCustomColors")
    /\ NumFrames(args) = 1 /\ FrameAt(args, 0) = Frame(1, 255, 0, 0, 0, 0)
    /\ EventsOfKind({"udpWrite"}) # {}
    /\ Datagram = <<0, 1, 0, 1, 255, 0, 0, 0, 0, 0>>

\* C5: a successful SetCustomColors performs, in this order: exactly one PUT
\* to `effects` (its response read and closed), then opens one UDP socket to
\* the host's resolved IP address on port 60222 (whatever port the configured
\* host carries), writes exactly one datagram that carries all frames, and
\* closes the socket; it reads no reply, and writes no datagram before the
\* PUT has completed.
C5_SuccessOrder ==
    (Done("SetCustomColors") /\ ret.err = NoError) =>
        /\ Len(events) = 6
        /\ events[1].kind = "httpReq"
        /\ events[1].method = "PUT"
        /\ events[1].url = Endpoint(host, "effects")
        /\ events[1].body = ExtControlBody
        /\ events[2].kind = "httpResp"
        /\ events[3].kind = "bodyClose"
        /\ events[4] = UdpOpen(net.dns, 60222)
        /\ events[5].kind = "udpWrite"
        /\ Len(events[5].data) = 2 + 8 * NumFrames(args)
        /\ 256 * events[5].data[1] + events[5].data[2] = NumFrames(args)
        /\ events[6].kind = "udpClose"

\* a run against a host configured with port 8080 succeeded with two frames
C5_Witness ==
    /\ Done("SetCustomColors")
    /\ ret.err = NoError
    /\ host.port = 8080
    /\ NumFrames(args) = 2
    /\ Len(events) = 6
    /\ events[4].port = 60222

\* C10: for every (r,g,b) in 0..255 cubed SetRGB(r,g,b) sends the same
\* request (resource `state`, same payload) and returns the same result as
\* SetHSL(h,s,l) with (h,s,l) = rgbToHSL(r,g,b).
C10_SetRGBIsSetHSL ==
    Done("SetRGB") =>
        LET hsl == rgbToHSL(args[1], args[2], args[3], args[4])
            viaHSL == SetHSL(host, hsl[1], hsl[2], hsl[3], net)
        IN /\ events = viaHSL.events
           /\ ret = viaHSL.ret
           /\ host.urlOK =>
                 /\ events[1].url = Endpoint(host, "state")
                 /\ events[1].body =
                       JObj(<< <<"brightness", JObj(<< <<"value", JNum(hsl[3])>> >>)>>,
                               <<"hue", JObj(<< <<"value", JNum(hsl[1])>> >>)>>,
                               <<"sat", JObj(<< <<"value", JNum(hsl[2])>> >>)>> >>)

\* SetRGB(0, 255, 0) has sent brightness 50, hue 120, sat 100 to `state`
C10_Witness ==
    /\ Done("SetRGB")
    /\ <<args[1], args[2], args[3]>> = <<0, 255, 0>>
    /\ net.kind = "ok"
    /\ host.urlOK
    /\ events[1].url = Endpoint(host, "state")
    /\ events[1].body =
          JObj(<< <<"brightness", JObj(<< <<"value", JNum(50)>> >>)>>,
                  <<"hue", JObj(<< <<"value", JNum(120)>> >>)>>,
                  <<"sat", JObj(<< <<"value", JNum(100)>> >>)>> >>)

\* what the network did for the operation: net is the reply to its HTTP
\* request, or for SetCustomColors the record that holds it
HttpReply == IF op = "SetCustomColors" THEN net.reply ELSE net

\* C11: no client operation retries: each call of On, Off, SetBrightness,
\* SetColorTemperature, SetHSL, SetRGB, SelectEffect, ListEffects or
\* GetPanelInfo issues at most one HTTP request, and each call of
\* SetCustomColors at most one HTTP request and at most one UDP datagram,
\* whether the attempt succeeds or fails (exactly one request whenever a
\* request can be built).
C11_NoRetry ==
    pc = "done" =>
        /\ Cardinality(EventsOfKind({"httpReq"})) <= 1
        /\ Cardinality(EventsOfKind({"udpWrite"})) <= 1
        /\ host.urlOK => Cardinality(EventsOfKind({"httpReq"})) = 1
        /\ op \in RestOps => EventsOfKind(UdpKinds) = {}

\* ListEffects met a refused connection: one request went out and the error
\* came back
C11_Witness ==
    /\ Done("ListEffects")
    /\ host.urlOK
    /\ net.kind = "refused"
    /\ ret.err = "ErrTransport"
    /\ Cardinality(EventsOfKind({"httpReq"})) = 1

\* C12: every network resource a client operation opens is closed before
\* the operation returns, on every return path including error returns: the
\* HTTP response body obtained in Get and Put, and the UDP socket opened in
\* SetCustomColors on every return taken after the socket was opened.
\* Violated: the return of the count check leaves the socket open.
C12_ResourcesClosed ==
    pc = "done" =>
        /\ Cardinality(EventsOfKind({"httpResp"})) = Cardinality(EventsOfKind({"bodyClose"}))
        /\ Cardinality(EventsOfKind({"udpOpen"})) = Cardinality(EventsOfKind({"udpClose"}))

\* the PUT of SetCustomColors succeeded and a later step failed: resolving
\* the host address, opening the socket, or writing the datagram
FailedAfterEnable ==
    /\ ~EnableFailed
    /\ \/ ~host.hasPort
       \/ net.dns = "fail"
       \/ IsV6(net.dns)
       \/ ~net.dial
       \/ ~net.write

\* C13: in SetCustomColors a failure that occurs after external control was
\* enabled (resolving the host address, opening the UDP socket, or writing
\* the datagram) is returned to the caller as an error; SetCustomColors
\* returns nil only if the datagram was actually written.  Violated: the
\* result of conn.Write is dropped and nil is returned.
C13_LateFailuresReturned ==
    Done("SetCustomColors") =>
        /\ FailedAfterEnable => ret.err # NoError
        /\ ret.err = NoError =>
              \E i \in EventsOfKind({"udpWrite"}) : events[i].ok

\* the GET of an operation got its response and read it in full
GetSucceeded == host.urlOK /\ net.kind = "ok"

\* C14: when the GET of the root resource succeeds but its body cannot be
\* parsed as panel info, GetPanelInfo still returns the raw body text exactly
\* as received, together with the parse error; when the GET itself fails it
\* returns no panel info, an empty raw text and the error.
C14_RawBodyKept ==
    Done("GetPanelInfo") =>
        /\ GetSucceeded =>
              /\ ret.body = net.body.text
              /\ ~IsNil(ret.info)
              /\ net.body.kind # "object" => ret.err \in {"ErrSyntax", "ErrUnmarshalType"}
              /\ net.body.kind = "object" => ret.err = NoError
        /\ ~GetSucceeded =>
              /\ IsNil(ret.info)
              /\ ret.body = ""
              /\ ret.err \in {"ErrNewRequest", "ErrTransport", "ErrRead"}

\* the device answered 200 with "<html>": the text came back with the
\* syntax error
C14_Witness ==
    /\ Done("GetPanelInfo")
    /\ GetSucceeded
    /\ net.body.text = "<html>"
    /\ ret.body = "<html>"
    /\ ret.err = "ErrSyntax"

ValueOf(v) == JObj(<< <<"value", v>> >>)

\* the payload the claim gives for each operation
StatePayload ==
    CASE op = "On" -> JObj(<< <<"on", ValueOf(JBool(TRUE))>> >>)
      [] op = "Off" -> JObj(<< <<"on", ValueOf(JBool(FALSE))>> >>)
      [] op = "SetBrightness" -> JObj(<< <<"brightness", ValueOf(JNum(args[1]))>> >>)
      [] op = "SetColorTemperature" -> JObj(<< <<"ct", ValueOf(JNum(args[1]))>> >>)
      [] op = "SetHSL" -> JObj(<< <<"brightness", ValueOf(JNum(args[3]))>>,
                                  <<"hue", ValueOf(JNum(args[1]))>>,
                                  <<"sat", ValueOf(JNum(args[2]))>> >>)

\* C17: each of On, Off, SetBrightness, SetColorTemperature and SetHSL issues
\* one PUT to resource `state` whose payload sets exactly: `on` (true for On,
\* false for Off); `brightness` for SetBrightness; `ct` for
\* SetColorTemperature; and `brightness`, `hue` and `sat` for SetHSL, with
\* brightness carrying the lightness argument; no other state property is
\* present in the payload.
C17_StatePayloads ==
    (pc = "done" /\ host.urlOK
     /\ op \in {"On", "Off", "SetBrightness", "SetColorTemperature", "SetHSL"}) =>
        /\ EventsOfKind({"httpReq"}) = {1}
        /\ events[1].method = "PUT"
        /\ events[1].url = Endpoint(host, "state")
        /\ events[1].body = StatePayload
        /\ Keys(events[1].body) =
              CASE op \in {"On", "Off"} -> {"on"}
                [] op = "SetBrightness" -> {"brightness"}
                [] op = "SetColorTemperature" -> {"ct"}
                [] op = "SetHSL" -> {"brightness", "hue", "sat"}

\* SetHSL(360, 100, 0) has sent brightness 0, hue 360 and sat 100, and
\* nothing else
C17_Witness ==
    /\ Done("SetHSL")
    /\ args = <<360, 100, 0>>
    /\ host.urlOK
    /\ events[1].body = JObj(<< <<"brightness", ValueOf(JNum(0))>>,
                                <<"hue", ValueOf(JNum(360))>>,
                                <<"sat", ValueOf(JNum(100))>> >>)

\* the operations built on Put
PutOps ==
    {"On", "Off", "SetBrightness", "SetColorTemperature", "SetHSL", "SetRGB",
     "SelectEffect", "SetCustomColors"}

\* C18: Put reports success (a nil error) for every HTTP response status, 2xx
\* or not, once the response body has been read in full; the operations
\* built on it therefore fail only on a transport-level error, never because
\* of the status code.
C18_StatusIgnored ==
    (pc = "done" /\ op \in PutOps /\ host.urlOK /\ HttpReply.kind = "ok") =>
        /\ events[2] = HttpResp(HttpReply.status)
        /\ op # "SetCustomColors" => ret.err = NoError
        /\ op = "SetCustomColors" =>
              /\ ret.err \notin {"ErrNewRequest", "ErrTransport", "ErrRead", "ErrStatus"}
              /\ (CustomAllOK /\ NumFrames(args) <= 65535) => ret.err = NoError

\* the device answered the PUT of On with 403 and On returned nil
C18_Witness ==
    /\ Done("On")
    /\ host.urlOK
    /\ net.kind = "ok" /\ net.status = 403
    /\ events[2] = HttpResp(403)
    /\ ret.err = NoError

\* C19: SetCustomColors called with more than 65535 frames returns its error
\* before performing any network I/O: no PUT to `effects` has been sent (the
\* device is not switched to external control) and no UDP socket has been
\* opened.  Violated: the count is checked after the PUT and after DialUDP.
C19_CountCheckedFirst ==
    (Done("SetCustomColors") /\ NumFrames(args) > 65535) =>
        /\ ret.err # NoError
        /\ EventsOfKind({"httpReq"}) = {}
        /\ EventsOfKind({"udpOpen"}) = {}

----------------------------------------------------------------------------
(* Claims about the command line (checked under SpecCli) *)

Exited == pc \in {"exit0", "exit1"}

\* what a word of the command line denotes
Meaning(w) == CHOOSE e \in WordTable \cup FrameWordTable : e.word = w
InRange(w, lo, hi) == Meaning(w).isInt /\ Meaning(w).val >= lo /\ Meaning(w).val <= hi

\* the documented ranges of the numeric arguments, in argument order, and the
\* client operation of each command
NumericCommands == {"hsl", "rgb", "temp", "brightness"}
ArgRanges(cmd) ==
    CASE cmd = "hsl" -> << <<0, 360>>, <<0, 100>>, <<0, 100>> >>
      [] cmd = "rgb" -> << <<0, 255>>, <<0, 255>>, <<0, 255>> >>
      [] cmd = "temp" -> << <<1200, 6500>> >>
      [] cmd = "brightness" -> << <<0, 100>> >>
CommandOp(cmd) ==
    CASE cmd = "hsl" -> "SetHSL"
      [] cmd = "rgb" -> "SetRGB"
      [] cmd = "temp" -> "SetColorTemperature"
      [] cmd = "brightness" -> "SetBrightness"

\* C15: for the commands hsl, rgb, temp and brightness, if any numeric
\* argument does not parse as an integer or lies outside its range (hue
\* 0..360, saturation 0..100, lightness 0..100, red/green/blue 0..255,
\* temperature 1200..6500, brightness 0..100), the process exits with status
\* 1 without invoking any client operation, so no network I/O happens; if all
\* arguments are in range exactly one client operation is invoked with those
\* values.
C15_ArgumentsValidated ==
    (Exited /\ argv[1] \in NumericCommands /\ Len(argv) = 1 + Len(ArgRanges(argv[1]))) =>
        LET ranges == ArgRanges(argv[1])
            Valid(i) == InRange(argv[i + 1], ranges[i][1], ranges[i][2])
        IN IF \A i \in 1..Len(ranges) : Valid(i)
           THEN /\ op = CommandOp(argv[1])
                /\ args = [i \in 1..Len(ranges) |-> Meaning(argv[i + 1]).val]
                /\ Cardinality(EventsOfKind({"httpReq"})) = IF host.urlOK THEN 1 ELSE 0
                /\ pc = "exit1" <=> ret.err # NoError
           ELSE /\ pc = "exit1"
                /\ op = "none"
                /\ events = <<>>

\* `hsl 360 100 101` has exited with status 1 and nothing was sent
C15_Witness ==
    /\ pc = "exit1"
    /\ argv = <<"hsl", <<"3", "6", "0">>, <<"1", "0", "0">>, <<"1", "0", "1">> >>
    /\ op = "none"
    /\ events = <<>>

\* `effect custom` has run; its words after `custom`
CustomRan == Exited /\ Len(argv) >= 2 /\ argv[1] = "effect" /\ argv[2] = "custom"
CustomWords == SubSeq(argv, 3, Len(argv))

\* word k of a frame group (1..5) denotes a value of its field: panel ID and
\* transition time 0..65535, red, green and blue 0..255
FieldParses(w, k) == InRange(w, 0, IF k \in {1, 5} THEN 65535 ELSE 255)

\* the second half of C20: one frame per group of 5 words, in argument
\* order, each with white = 0
FramePerGroup ==
    LET words == CustomWords
    IN /\ op = "SetCustomColors"
       /\ NumFrames(args) = Len(words) \div 5
       /\ \A i \in 0..(Len(words) \div 5 - 1) :
             FrameAt(args, i) =
                Frame(Meaning(words[5 * i + 1]).val, Meaning(words[5 * i + 2]).val,
                      Meaning(words[5 * i + 3]).val, Meaning(words[5 * i + 4]).val,
                      0, Meaning(words[5 * i + 5]).val)

\* C20: for `effect custom`, when the number of arguments after `custom` is
\* not a multiple of 5, the command is rejected: SetCustomColors is not
\* invoked and no network I/O happens.  When it is a multiple of 5 and every
\* value parses, SetCustomColors is invoked once with one frame per group of
\* 5 arguments, in argument order, each with white = 0.  Violated: a count
\* that is not a multiple of 5 prints the usage line and goes on with the
\* full groups.
C20_CustomArgumentCount ==
    CustomRan =>
        LET words == CustomWords
        IN /\ Len(words) % 5 # 0 => (op = "none" /\ events = <<>>)
           /\ (/\ Len(words) % 5 = 0
               /\ \A k \in 1..Len(words) : FieldParses(words[k], ((k - 1) % 5) + 1))
                 => FramePerGroup

\* `panel info` or `panel state` got a document that GetPanelInfo parsed
\* without error
PanelPrinted ==
    /\ pc # "idle"
    /\ Len(argv) = 2 /\ argv[1] = "panel" /\ argv[2] \in {"info", "state"}
    /\ op = "GetPanelInfo"
    /\ ret.err = NoError

\* C21: for every panel info document that GetPanelInfo parses without
\* error, the commands `panel info` and `panel state` run to completion
\* without a runtime crash, including documents in which a state property
\* (on, hue, sat, brightness, ct) or one of its min/max bounds is absent.
\* Violated: the properties and their bounds are dereferenced unchecked.
C21_PanelInfoNilSafe == PanelPrinted => pc = "exit0"

====
